---- MODULE Spec2Model ----
(***************************************************************************)
(* Model of BZFlag/Event.py: the Event observer primitive, the Timer       *)
(* classes and the EventLoop reactor (Python 2).                           *)
(***************************************************************************)
EXTENDS Integers, Sequences, FiniteSets, TLC

(***************************************************************************)
(* Universe of the Event model                                             *)
(***************************************************************************)
\* callables that client code registers on the Event under study
Callbacks == {"c1", "c2", "c3"}
\* the callable stored in Event.unhandledCallback, or "None"
Fallbacks == {"fb"}
\* the argument tuples a trigger is called with
ArgVals == {"a1", "a2"}
\* values a callback returns: two falsy ones and two truthy ones
Falsy == {"None", "zero"}
TruthyVals == {"t1", "t2"}
Returns == Falsy \cup TruthyVals
\* a callback may also raise instead of returning
Outcomes == Returns \cup {"raise"}
\* the positional arguments of each argument tuple (no keyword arguments):
\* a1 is a call with one argument, a2 a call with two
ArgCount == [a \in ArgVals |-> IF a = "a1" THEN 1 ELSE 2]
\* the fmt arguments handed to Event.trace: a string without conversions
\* ("Connected."), one that reads key "1", one that reads key "2"
\* ("Added player %(2)s"), and a callable (the lambda of 3dobserver.py)
TraceFormats == {"plain", "one", "two", "callable"}

VARIABLES
    \* ---- Event object ----
    clients,            \* Event.clients: callback -> number of entries under that key
    unhandledCallback,  \* Event.unhandledCallback
    evpc,               \* position of Event.__call__: idle / dispatch / done / raised
    pending,            \* entries of the keys() list not yet visited by the for loop
    evArgs,             \* (*args, **kw) of the trigger in progress / last trigger
    calls,              \* invocations made by the last trigger, in order
    result,             \* value returned by the last trigger
    startClients,       \* clients when the last trigger started
    startUnhandled,     \* unhandledCallback when the last trigger started
    prevClients,        \* clients before the last observe/unobserve
    lastOp,             \* the last observe/unobserve/trigger, with its outcome
    staleCall,          \* the last trigger called a callback unobserved during it
    traceFmt,           \* fmt of each closure traceCallback, "None" for other callables
    output              \* lines printed during the last trigger, in order

evVars == <<clients, unhandledCallback, evpc, pending, evArgs, calls, result,
            startClients, startUnhandled, prevClients, lastOp, staleCall,
            traceFmt, output>>

VARIABLES
    \* ---- EventLoop object ----
    pollTime,             \* EventLoop.pollTime: "None" or a duration
    sockets,              \* EventLoop.sockets (list)
    timers,               \* EventLoop.timers (list)
    nextTimerActivation,  \* EventLoop.nextTimerActivation: "None" or a time
    running,              \* EventLoop.running: "unset" before the first run/stop
    onPoll,               \* clients of the Event EventLoop.onPoll
    onNonfatalException,  \* clients of the Event EventLoop.onNonfatalException
    showNonfatalExceptions, \* EventLoop.showNonfatalExceptions
    \* ---- Timer objects ----
    activationTime,       \* Timer.activationTime of every timer
    eventLoop,            \* Timer.eventLoop set: the timer is bound to the loop
    \* ---- EventLoop.run ----
    pc,                   \* position of run: idle/top/sockets/timers/hook/returned/raised
    selectables,          \* keys of selectDict, built once when run starts
    timeout,              \* the local pollTime handed to select
    readyList,            \* part of readyList not yet polled
    now,                  \* local now of the timer step
    timerIdx,             \* entries of self.timers the for loop has consumed
    timesChanged,         \* local timesChanged
    hookPending,          \* onPoll observers not yet called in this dispatch
    exc,                  \* the exception run ended with
    \* ---- environment and history ----
    clock,                \* time.time()
    iterLog,              \* what run did since the last call of select, in order
    readyAtSelect,        \* the list the last select returned
    stopRequested,        \* stop() was called inside the current run
    lastCall,             \* the last call client code made on the loop or a timer
    pollReturn            \* what the last timer.poll returned

loopVars == <<pollTime, sockets, timers, nextTimerActivation, running, onPoll,
              onNonfatalException, showNonfatalExceptions,
              activationTime, eventLoop, pc, selectables, timeout, readyList,
              now, timerIdx, timesChanged, hookPending, exc, clock, iterLog,
              readyAtSelect, stopRequested, lastCall, pollReturn>>

vars == <<evVars, loopVars>>

(***************************************************************************)
(* class Event                                                             *)
(***************************************************************************)
NoClients == [c \in Callbacks |-> 0]

\* self.clients = {}
EmptyDict == NoClients

\* a list-based register would add one more entry on every call
ObserveAppend(cl, callback) == [cl EXCEPT ![callback] = @ + 1]

\* Event.observe: self.clients[callback] = 1
Observe(cl, callback) == [cl EXCEPT ![callback] = 1]

\* a removal that never misses its key, as self.clients.pop(callback, None)
RegisteredAlways(cl, callback) == TRUE

\* Event.unobserve: del self.clients[callback]   (KeyError when absent)
Registered(cl, callback) == cl[callback] > 0
Unobserve(cl, callback) == [cl EXCEPT ![callback] = 0]

\* "if self.clients:" - a dict is true when it has at least one key
HasClients(cl) == \E c \in Callbacks : cl[c] > 0

\* self.clients.keys(): a new list holding every key (Python 2), in an
\* order the dict chooses; represented by how often each key is in the list
Keys(cl) == cl

\* iterating the live dict instead of the keys() list would drop the keys
\* removed during the dispatch and pick up the ones added
LiveRemaining(rest, cl, visited) ==
    [c \in Callbacks |-> IF c \in visited THEN 0 ELSE cl[c]]

\* the part of the keys() list still to visit after a callback has run and
\* possibly changed self.clients: the list is a copy, so it is unaffected
Remaining(rest, cl, visited) == rest

\* "if r is not None:" would also abort on a falsy result such as 0
TruthyNotNone(r) == r # "None"

\* a dispatch without "if r: return r" goes on whatever a callback returns
TruthyNever(r) == FALSE

\* "if r:" - truthiness of a callback's result
Truthy(r) == r \in TruthyVals

\* "return True" would lose the callback's own value
AbortValueTrue(r) == "t1"

\* "return r" - the value the trigger hands back when a callback aborts
AbortValue(r) == r

\* calling the unhandled callback whenever one is set
CallsUnhandledAlways(cl, f) == f # "None"

\* the else branch of "if self.clients:" with "if self.unhandledCallback:"
CallsUnhandled(cl, f) == ~HasClients(cl) /\ f # "None"

\* Event.__init__(*args): observe each argument in turn
RECURSIVE ObserveAll(_, _)
ObserveAll(cl, seq) ==
    IF seq = <<>> THEN cl
    ELSE ObserveAll(Observe(cl, Head(seq)), Tail(seq))

\* constructor argument lists used by the model (attach() passes one method)
CtorArgs == {<<>>, <<"c1">>, <<"c1", "c1">>, <<"c2", "c1">>}

\* what a callback does to the Event it is called from, while it runs
NoEffect == <<"none", "c1">>
Effects == {NoEffect}
           \cup {<<"observe", c>> : c \in Callbacks}
           \cup {<<"unobserve", c>> : c \in Callbacks}

ApplyEffect(cl, e) ==
    CASE e[1] = "observe"   -> Observe(cl, e[2])
      [] e[1] = "unobserve" -> Unobserve(cl, e[2])
      [] OTHER              -> cl

Visited(cs) == {cs[i].cb : i \in 1..Len(cs)}

\* no callable is a closure made by Event.trace
NoTraces == [c \in Callbacks |-> "None"]
IsTrace(tf, c) == tf[c] # "None"

\* traceCallback(*args, **kw): kw[str(index)] = arg for index = 1, 2, ...:
\* the dictionary handed to the % operator, key i holding the i-th argument
TraceKw(a) == [i \in 1..ArgCount[a] |-> <<a, i>>]

\* the keys that the conversions of a format string read
FormatKeys(fmt) ==
    CASE fmt = "one" -> {1}
      [] fmt = "two" -> {2}
      [] OTHER       -> {}

\* "fmt % kw" raises TypeError when fmt is not a string and KeyError when a
\* conversion names a key that kw does not hold
FormatRaises(fmt, kw) ==
    fmt = "callable" \/ ~(FormatKeys(fmt) \subseteq DOMAIN kw)

\* "print fmt % kw": the line written, the format with the values read
FormatLine(fmt, kw) ==
    [fmt |-> fmt, vals |-> [k \in FormatKeys(fmt) \cap DOMAIN kw |-> kw[k]]]

\* what a call of traceCallback with the argument tuple a does: it raises
\* in the % operator, or prints one line and returns None
TraceOutcome(fmt, a) == IF FormatRaises(fmt, TraceKw(a)) THEN "raise" ELSE "None"
TraceOutput(fmt, a) ==
    IF FormatRaises(fmt, TraceKw(a)) THEN <<>> ELSE <<FormatLine(fmt, TraceKw(a))>>

EvInit ==
    /\ \E seq \in CtorArgs : clients = ObserveAll(EmptyDict, seq)
    /\ unhandledCallback = "None"
    /\ evpc = "idle"
    /\ pending = NoClients
    /\ evArgs = "a1"
    /\ calls = <<>>
    /\ result = "None"
    /\ startClients = NoClients
    /\ startUnhandled = "None"
    /\ prevClients = NoClients
    /\ lastOp = [op |-> "init", cb |-> "c1", err |-> "None"]
    /\ staleCall = FALSE
    /\ traceFmt = NoTraces
    /\ output = <<>>

\* an Event as Event() builds it, never used
EvInitEmpty ==
    /\ clients = EmptyDict
    /\ unhandledCallback = "None"
    /\ evpc = "idle"
    /\ pending = NoClients
    /\ evArgs = "a1"
    /\ calls = <<>>
    /\ result = "None"
    /\ startClients = NoClients
    /\ startUnhandled = "None"
    /\ prevClients = NoClients
    /\ lastOp = [op |-> "init", cb |-> "c1", err |-> "None"]
    /\ staleCall = FALSE
    /\ traceFmt = NoTraces
    /\ output = <<>>

\* the record of the last trigger is dropped when client code moves on
ForgetTrigger ==
    /\ evpc' = "idle"
    /\ pending' = NoClients
    /\ evArgs' = "a1"
    /\ calls' = <<>>
    /\ result' = "None"
    /\ startClients' = NoClients
    /\ startUnhandled' = "None"
    /\ staleCall' = FALSE
    /\ output' = <<>>

\* client code calling event.observe(callback) outside a dispatch
EvObserve(callback) ==
    /\ UNCHANGED loopVars
    /\ evpc # "dispatch"
    /\ ~IsTrace(traceFmt, callback)
    /\ clients' = Observe(clients, callback)
    /\ prevClients' = clients
    /\ lastOp' = [op |-> "observe", cb |-> callback, err |-> "None"]
    /\ ForgetTrigger
    /\ UNCHANGED <<unhandledCallback, traceFmt>>

\* client code calling event.unobserve(callback) outside a dispatch
EvUnobserve(callback) ==
    /\ UNCHANGED loopVars
    /\ evpc # "dispatch"
    /\ ~IsTrace(traceFmt, callback)
    /\ prevClients' = clients
    /\ IF Registered(clients, callback)
       THEN /\ clients' = Unobserve(clients, callback)
            /\ lastOp' = [op |-> "unobserve", cb |-> callback, err |-> "None"]
       ELSE /\ clients' = clients
            /\ lastOp' = [op |-> "unobserve", cb |-> callback, err |-> "KeyError"]
    /\ ForgetTrigger
    /\ UNCHANGED <<unhandledCallback, traceFmt>>

\* client code assigning event.unhandledCallback
EvSetUnhandled(f) ==
    /\ UNCHANGED loopVars
    /\ evpc # "dispatch"
    /\ unhandledCallback # f
    /\ unhandledCallback' = f
    /\ ForgetTrigger
    /\ UNCHANGED <<clients, prevClients, lastOp, traceFmt>>

\* Event.__call__, up to the first callback: the test of self.clients, the
\* keys() list, or the whole else branch with the unhandled callback
EvTrigger(a) ==
    /\ UNCHANGED loopVars
    /\ evpc # "dispatch"
    /\ evArgs' = a
    /\ startClients' = clients
    /\ startUnhandled' = unhandledCallback
    /\ result' = "None"
    /\ calls' = IF CallsUnhandled(clients, unhandledCallback)
                THEN <<[cb |-> unhandledCallback, args |-> a, ret |-> "None"]>>
                ELSE <<>>
    /\ IF HasClients(clients)
       THEN /\ pending' = Keys(clients)
            /\ evpc' = "dispatch"
       ELSE /\ pending' = NoClients
            /\ evpc' = "done"
    /\ prevClients' = clients
    /\ lastOp' = [op |-> "trigger", cb |-> "c1", err |-> "None"]
    /\ staleCall' = FALSE
    /\ output' = <<>>
    /\ UNCHANGED <<clients, unhandledCallback, traceFmt>>

\* client code calling event.trace(fmt) outside a dispatch: a new closure
\* traceCallback, a callable client code holds no reference to, is observed
EvTrace(fmt) ==
    /\ UNCHANGED loopVars
    /\ evpc # "dispatch"
    /\ \E c \in Callbacks :
          /\ ~Registered(clients, c)
          /\ ~IsTrace(traceFmt, c)
          /\ traceFmt' = [traceFmt EXCEPT ![c] = fmt]
          /\ clients' = Observe(clients, c)
          /\ lastOp' = [op |-> "trace", cb |-> c, err |-> "None"]
    /\ prevClients' = clients
    /\ ForgetTrigger
    /\ UNCHANGED unhandledCallback

\* one pass of the for loop of Event.__call__: the next key of the list is
\* called with the trigger's arguments; the callback may observe/unobserve on
\* this Event while it runs, then returns r or raises; a closure made by
\* trace does what traceCallback does
EvInvoke(c, e, r) ==
    /\ UNCHANGED loopVars
    /\ evpc = "dispatch"
    /\ pending[c] > 0
    /\ e[1] = "unobserve" => Registered(clients, e[2])
    /\ ~IsTrace(traceFmt, e[2]) \/ e = NoEffect
    /\ IF IsTrace(traceFmt, c)
       THEN /\ e = NoEffect
            /\ r = TraceOutcome(traceFmt[c], evArgs)
            /\ output' = output \o TraceOutput(traceFmt[c], evArgs)
       ELSE output' = output
    /\ calls' = Append(calls, [cb |-> c, args |-> evArgs, ret |-> r])
    /\ staleCall' = (staleCall \/ ~Registered(clients, c))
    /\ clients' = ApplyEffect(clients, e)
    /\ IF e[1] = "none"
       THEN UNCHANGED <<prevClients, lastOp>>
       ELSE /\ prevClients' = clients
            /\ lastOp' = [op |-> e[1], cb |-> e[2], err |-> "None"]
    /\ LET rest == Remaining([pending EXCEPT ![c] = @ - 1], clients',
                             Visited(calls'))
       IN  /\ pending' = rest
           /\ IF r = "raise"
              THEN /\ evpc' = "raised"
                   /\ result' = "None"
              ELSE IF Truthy(r)
              THEN /\ evpc' = "done"
                   /\ result' = AbortValue(r)
              ELSE /\ evpc' = IF HasClients(rest) THEN "dispatch" ELSE "done"
                   /\ result' = "None"
    /\ UNCHANGED <<unhandledCallback, evArgs, startClients, startUnhandled,
                   traceFmt>>

(***************************************************************************)
(* Universe of the EventLoop model                                         *)
(***************************************************************************)
\* Network.Socket objects and Timer objects handed to the EventLoop
Sockets == {"s1", "s2"}
OneshotTimers == {"o1"}
PeriodicTimers == {"p0", "p1"}
TimerIds == OneshotTimers \cup PeriodicTimers
\* the period argument each timer was constructed with: p0 is the
\* PeriodicTimer with period zero
Period == [t \in TimerIds |-> CASE t = "o1" -> 1 [] t = "p0" -> 0 [] OTHER -> 2]
\* the timers registered where sockets are registered too
RunTimers == {"o1", "p1"}
\* objects handed to add/remove that are neither Network.Socket nor Timer
Others == {"x1"}
\* callables observing EventLoop.onPoll
HookObservers == {"c1"}
\* the bound method EventLoop.onNonfatalException, as a callable
DefaultPrinter == "c3"
\* values client code assigns to EventLoop.showNonfatalExceptions
ShowFlags == {0, 1}
\* the last time the clock of the model reaches
MaxTime == 3
\* the time that may pass between the return of select and now = time.time()
Ticks == {0, 1}
\* the last time client code hands to a poll it calls itself, and the
\* longest record of such polls
MaxPollTime == 4
MaxLog == 4

\* Python's None and a present value
None == <<>>
Some(x) == <<x>>

\* values client code assigns to EventLoop.pollTime
PollTimes == {None, Some(1)}

\* what a socket's poll, a timer's handler or an onPoll observer does: it
\* returns, calls EventLoop.stop and returns, or raises an exception that is
\* an Errors.NonfatalException or is not; an observer may return a truthy value
SocketOutcomes == {"ok", "stop", "nonfatal", "fatal"}
HandlerOutcomes == {"ok", "stop", "nonfatal", "fatal"}
ObserverOutcomes == {"ok", "stop", "truthy", "nonfatal", "fatal"}
Stops(out) == out = "stop"

\* as if a failure that is an Errors.NonfatalException never left the callee
RaisesFatalOnly(out) == out = "fatal"

Raises(out) == out \in {"nonfatal", "fatal"}
ExcOf(out) == IF out = "nonfatal" THEN "NonfatalException" ELSE "Error"
ResultOf(out) == IF out = "truthy" THEN "t1" ELSE "None"

(***************************************************************************)
(* class Timer, OneshotTimer, PeriodicTimer                                *)
(***************************************************************************)
\* Timer.getNextActivation
GetNextActivation(act, t) == act[t]

\* firing as soon as the activation time is reached
FiresAtOrAfter(n, at) == n >= at

\* "if now > self.activationTime" in OneshotTimer.poll and PeriodicTimer.poll
Fires(n, at) == n > at

\* the while loop of PeriodicTimer.poll never ends when it adds nothing
Diverges(at, period, n) == at < n /\ period = 0

\* PeriodicTimer.poll: "return 1" after an activation; every other path of
\* a poll falls off the end and returns None
PeriodicReturn == Some(1)

\* PeriodicTimer.poll: while self.activationTime < now: += self.period
RECURSIVE AdvancePast(_, _, _)
AdvancePast(at, period, n) ==
    IF at < n /\ period > 0 THEN AdvancePast(at + period, period, n) ELSE at

(***************************************************************************)
(* attach                                                                  *)
(***************************************************************************)
\* hasattr(cls, arg) for an EventLoop under construction: of the two names
\* it attaches, only onNonfatalException is a method of the class
HasAttr(name) == name = "onNonfatalException"

\* getattr(cls, arg): the bound method behind the name
GetAttr(name) == DefaultPrinter

\* attach, for one name: Event(getattr(cls, arg)) when the name exists on the
\* instance, Event() when it does not
Attach(name) ==
    IF HasAttr(name) THEN ObserveAll(EmptyDict, <<GetAttr(name)>>)
    ELSE ObserveAll(EmptyDict, <<>>)

(***************************************************************************)
(* class EventLoop                                                         *)
(***************************************************************************)
\* taking whatever is handed in for a socket
IsSocketAny(item) == TRUE

\* isinstance(item, Network.Socket) and isinstance(item, Timer)
IsSocket(item) == item \in Sockets
IsTimer(item) == item \in TimerIds

\* printing whatever the flag says
ShownAlways(flag) == TRUE

\* "if self.showNonfatalExceptions:"
Shown(flag) == flag # 0

\* EventLoop.onNonfatalException(info): one print statement when the flag is
\* set
PrinterOutput(flag, s) == IF Shown(flag) THEN << <<"print", s>> >> ELSE <<>>

\* the trigger self.onNonfatalException(sys.exc_info()) as run makes it: the
\* observers of the hook are called, the default one prints
HookOutput(cl, flag, s) ==
    IF Registered(cl, DefaultPrinter) THEN PrinterOutput(flag, s) ELSE <<>>

Range(q) == {q[i] : i \in 1..Len(q)}

\* list.remove(item): drops the first entry equal to item
RemoveFirst(q, x) ==
    LET i == CHOOSE k \in 1..Len(q) : q[k] = x /\ \A j \in 1..(k - 1) : q[j] # x
    IN  SubSeq(q, 1, i - 1) \o SubSeq(q, i + 1, Len(q))

\* the comparison turned round: the latest activation time is kept
RECURSIVE NextActivationLatest(_, _, _)
NextActivationLatest(nta, tms, act) ==
    IF tms = <<>> THEN nta
    ELSE LET x == GetNextActivation(act, Head(tms))
         IN  NextActivationLatest(IF nta = None \/ x > nta[1] THEN Some(x) ELSE nta,
                                  Tail(tms), act)

\* EventLoop.updateNextTimerActivation: the loop over self.timers
RECURSIVE NextActivationFrom(_, _, _)
NextActivationFrom(nta, tms, act) ==
    IF tms = <<>> THEN nta
    ELSE LET x == GetNextActivation(act, Head(tms))
         IN  NextActivationFrom(IF nta = None \/ x < nta[1] THEN Some(x) ELSE nta,
                                Tail(tms), act)

\* without the comparison the time of the last timer in the list is kept
UpdateLastTimer(tms, act) ==
    IF tms = <<>> THEN None ELSE Some(GetNextActivation(act, tms[Len(tms)]))

UpdateNextTimerActivation(tms, act) == NextActivationFrom(None, tms, act)

\* the comparison turned round: the later of the two times is kept
SelectTimeoutLatest(pt, nta, t) ==
    IF nta # None
    THEN LET untilNextTimer == IF nta[1] - t < 0 THEN 0 ELSE nta[1] - t
         IN  IF pt = None THEN Some(untilNextTimer)
             ELSE IF untilNextTimer > pt[1] THEN Some(untilNextTimer) ELSE pt
    ELSE pt

\* run: the poll time actually used, from pollTime and nextTimerActivation
SelectTimeout(pt, nta, t) ==
    IF nta # None
    THEN LET untilNextTimer == IF nta[1] - t < 0 THEN 0 ELSE nta[1] - t
         IN  IF pt = None THEN Some(untilNextTimer)
             ELSE IF untilNextTimer < pt[1] THEN Some(untilNextTimer) ELSE pt
    ELSE pt

\* "while self.running:"
LoopContinues(r) == r = Some(1)

\* without the finally clause the flag keeps its value
FinallySkipped(r) == r

\* "finally: self.running = 0"
Finally(r) == Some(0)

\* EventLoop.stop: self.running = 0
StopFlag == Some(0)

\* "except select.error: continue" would try the wait again
SelectErrorSwallowed == FALSE

\* "except select.error: raise Errors.ConnectionLost()"
SelectErrorRaises == TRUE

\* a bare "except:" would treat every failure as non-fatal
CaughtAny(out) == out # "ok"

\* "except Errors.NonfatalException:" around a socket's poll
Caught(out) == out = "nonfatal"

\* the timer step placed before the socket step
TimersFirst == "timers"

\* the step run enters when select has returned
AfterSelect == "sockets"

\* the lists select may return: selectables in any number and order
ReadyLists(sel) ==
    {<<>>} \cup {<<s>> : s \in sel}
           \cup {<<s, u>> : <<s, u>> \in {p \in sel \X sel : p[1] # p[2]}}

LoopInit ==
    /\ pollTime = None
    /\ sockets = <<>>
    /\ timers = <<>>
    /\ nextTimerActivation = None
    /\ running = None
    /\ onPoll = Attach("onPoll")
    /\ onNonfatalException = Attach("onNonfatalException")
    /\ showNonfatalExceptions = 1
    /\ activationTime = [t \in TimerIds |-> 0 + Period[t]]
    /\ eventLoop = [t \in TimerIds |-> FALSE]
    /\ pc = "idle"
    /\ selectables = {}
    /\ timeout = None
    /\ readyList = <<>>
    /\ now = 0
    /\ timerIdx = 0
    /\ timesChanged = 0
    /\ hookPending = NoClients
    /\ exc = "None"
    /\ clock = 0
    /\ iterLog = <<>>
    /\ readyAtSelect = <<>>
    /\ stopRequested = FALSE
    /\ lastCall = [op |-> "init", item |-> "-", err |-> "None"]
    /\ pollReturn = None

\* the diagnostics of the loop: the hook Event and the flag of its printer
diagVars == <<onNonfatalException, showNonfatalExceptions>>

runVars == <<pc, selectables, timeout, readyList, now, timerIdx, timesChanged,
             hookPending, exc, clock, iterLog, readyAtSelect, stopRequested>>

\* EventLoop.add(item) with a Network.Socket, before run
AddSocket(s) ==
    /\ UNCHANGED evVars
    /\ UNCHANGED <<diagVars, pollReturn>>
    /\ lastCall' = [op |-> "add", item |-> s, err |-> "None"]
    /\ pc = "idle"
    /\ s \notin Range(sockets)
    /\ sockets' = Append(sockets, s)
    /\ UNCHANGED <<pollTime, timers, nextTimerActivation, running, onPoll,
                   activationTime, eventLoop, runVars>>

\* EventLoop.add(item) with a Timer, before run
AddTimer(t) ==
    /\ UNCHANGED evVars
    /\ UNCHANGED <<diagVars, pollReturn>>
    /\ lastCall' = [op |-> "add", item |-> t, err |-> "None"]
    /\ pc = "idle"
    /\ t \notin Range(timers)
    /\ timers' = Append(timers, t)
    /\ eventLoop' = [eventLoop EXCEPT ![t] = TRUE]
    /\ nextTimerActivation' = UpdateNextTimerActivation(timers', activationTime)
    /\ UNCHANGED <<pollTime, sockets, running, onPoll, activationTime, runVars>>

\* EventLoop.remove(item) with a registered Network.Socket, before run
RemoveSocket(s) ==
    /\ UNCHANGED evVars
    /\ UNCHANGED <<diagVars, pollReturn>>
    /\ lastCall' = [op |-> "remove", item |-> s, err |-> "None"]
    /\ pc = "idle"
    /\ s \in Range(sockets)
    /\ sockets' = RemoveFirst(sockets, s)
    /\ UNCHANGED <<pollTime, timers, nextTimerActivation, running, onPoll,
                   activationTime, eventLoop, runVars>>

\* EventLoop.remove(item) with a registered Timer, before run
RemoveTimer(t) ==
    /\ UNCHANGED evVars
    /\ UNCHANGED <<diagVars, pollReturn>>
    /\ lastCall' = [op |-> "remove", item |-> t, err |-> "None"]
    /\ pc = "idle"
    /\ t \in Range(timers)
    /\ timers' = RemoveFirst(timers, t)
    /\ UNCHANGED <<pollTime, sockets, nextTimerActivation, running, onPoll,
                   activationTime, eventLoop, runVars>>

\* client code assigning eventLoop.pollTime, before run
SetPollTime(v) ==
    /\ UNCHANGED evVars
    /\ UNCHANGED <<diagVars, pollReturn>>
    /\ lastCall' = [op |-> "set", item |-> "pollTime", err |-> "None"]
    /\ pc = "idle"
    /\ pollTime # v
    /\ pollTime' = v
    /\ UNCHANGED <<sockets, timers, nextTimerActivation, running, onPoll,
                   activationTime, eventLoop, runVars>>

\* client code calling eventLoop.onPoll.observe(c), before run
OnPollObserve(c) ==
    /\ UNCHANGED evVars
    /\ UNCHANGED <<diagVars, pollReturn>>
    /\ lastCall' = [op |-> "observe", item |-> c, err |-> "None"]
    /\ pc = "idle"
    /\ ~Registered(onPoll, c)
    /\ onPoll' = Observe(onPoll, c)
    /\ UNCHANGED <<pollTime, sockets, timers, nextTimerActivation, running,
                   activationTime, eventLoop, runVars>>

\* client code assigning eventLoop.showNonfatalExceptions, before run
SetShowNonfatal(v) ==
    /\ UNCHANGED evVars
    /\ pc = "idle"
    /\ showNonfatalExceptions # v
    /\ showNonfatalExceptions' = v
    /\ lastCall' = [op |-> "set", item |-> "showNonfatalExceptions", err |-> "None"]
    /\ UNCHANGED <<pollTime, sockets, timers, nextTimerActivation, running, onPoll,
                   onNonfatalException, activationTime, eventLoop, runVars,
                   pollReturn>>

\* EventLoop.add(item) with an item of another class, before run: both
\* isinstance tests fail and the else branch raises TypeError
AddOther(item) ==
    /\ UNCHANGED evVars
    /\ pc = "idle"
    /\ IF IsSocket(item)
       THEN /\ sockets' = Append(sockets, item)
            /\ lastCall' = [op |-> "add", item |-> item, err |-> "None"]
            /\ UNCHANGED <<timers, eventLoop, nextTimerActivation>>
       ELSE IF IsTimer(item)
       THEN /\ timers' = Append(timers, item)
            /\ eventLoop' = [eventLoop EXCEPT ![item] = TRUE]
            /\ nextTimerActivation' =
                  UpdateNextTimerActivation(timers', activationTime)
            /\ lastCall' = [op |-> "add", item |-> item, err |-> "None"]
            /\ UNCHANGED sockets
       ELSE /\ lastCall' = [op |-> "add", item |-> item, err |-> "TypeError"]
            /\ UNCHANGED <<sockets, timers, eventLoop, nextTimerActivation>>
    /\ UNCHANGED <<pollTime, running, onPoll, diagVars, activationTime, runVars,
                   pollReturn>>

\* EventLoop.remove(item) with an item of another class, before run
\* (list.remove raises ValueError when the item is not in the list)
RemoveOther(item) ==
    /\ UNCHANGED evVars
    /\ pc = "idle"
    /\ IF IsSocket(item)
       THEN /\ IF item \in Range(sockets)
               THEN /\ sockets' = RemoveFirst(sockets, item)
                    /\ lastCall' = [op |-> "remove", item |-> item, err |-> "None"]
               ELSE /\ sockets' = sockets
                    /\ lastCall' = [op |-> "remove", item |-> item,
                                     err |-> "ValueError"]
            /\ UNCHANGED timers
       ELSE IF IsTimer(item)
       THEN /\ IF item \in Range(timers)
               THEN /\ timers' = RemoveFirst(timers, item)
                    /\ lastCall' = [op |-> "remove", item |-> item, err |-> "None"]
               ELSE /\ timers' = timers
                    /\ lastCall' = [op |-> "remove", item |-> item,
                                     err |-> "ValueError"]
            /\ UNCHANGED sockets
       ELSE /\ lastCall' = [op |-> "remove", item |-> item, err |-> "TypeError"]
            /\ UNCHANGED <<sockets, timers>>
    /\ UNCHANGED <<pollTime, nextTimerActivation, running, onPoll, diagVars,
                   activationTime, eventLoop, runVars, pollReturn>>

\* EventLoop.stop called while run is not in progress
StopIdle ==
    /\ UNCHANGED evVars
    /\ UNCHANGED <<diagVars, pollReturn>>
    /\ lastCall' = [op |-> "stop", item |-> "-", err |-> "None"]
    /\ pc = "idle"
    /\ running # StopFlag
    /\ running' = StopFlag
    /\ UNCHANGED <<pollTime, sockets, timers, nextTimerActivation, onPoll,
                   activationTime, eventLoop, runVars>>

\* run, up to the while loop: sets the flag and builds selectDict; a
\* socket's getSelectable may raise, which leaves through the finally clause
RunStart(ok) ==
    /\ UNCHANGED evVars
    /\ UNCHANGED <<diagVars, pollReturn>>
    /\ lastCall' = [op |-> "run", item |-> "-", err |-> "None"]
    /\ pc = "idle"
    /\ ok \/ sockets # <<>>
    /\ IF ok
       THEN /\ running' = Some(1)
            /\ selectables' = Range(sockets)
            /\ pc' = "top"
            /\ exc' = "None"
       ELSE /\ running' = Finally(Some(1))
            /\ selectables' = {}
            /\ pc' = "raised"
            /\ exc' = "SelectableError"
    /\ UNCHANGED <<pollTime, sockets, timers, nextTimerActivation, onPoll,
                   activationTime, eventLoop, timeout, readyList, now, timerIdx,
                   timesChanged, hookPending, clock, iterLog, readyAtSelect,
                   stopRequested>>

\* run: the loop is left when the flag is clear; the finally clause follows
LoopExit ==
    /\ UNCHANGED evVars
    /\ UNCHANGED <<diagVars, lastCall, pollReturn>>
    /\ pc = "top"
    /\ ~LoopContinues(running)
    /\ pc' = "returned"
    /\ running' = Finally(running)
    /\ UNCHANGED <<pollTime, sockets, timers, nextTimerActivation, onPoll,
                   activationTime, eventLoop, selectables, timeout, readyList,
                   now, timerIdx, timesChanged, hookPending, exc, clock, iterLog,
                   readyAtSelect, stopRequested>>

\* run: one pass from the while test through select. select returns the
\* list ready after d units of time (the whole timeout when nothing is
\* ready), or fails with select.error
WaitSelect(ready, d, ok) ==
    /\ UNCHANGED evVars
    /\ UNCHANGED <<diagVars, lastCall>>
    /\ pollReturn' = None
    /\ pc = "top"
    /\ LoopContinues(running)
    /\ LET to == SelectTimeout(pollTime, nextTimerActivation, clock)
       IN  /\ timeout' = to
           /\ IF ok
              THEN /\ ready \in ReadyLists(selectables)
                   /\ IF ready = <<>>
                      THEN to # None /\ d = to[1]
                      ELSE d \in Ticks /\ (to # None => d <= to[1])
                   /\ clock + d <= MaxTime
                   /\ clock' = clock + d
                   /\ readyList' = ready
                   /\ readyAtSelect' = ready
                   /\ iterLog' = << <<"select", "-">> >>
                   /\ pc' = AfterSelect
                   /\ UNCHANGED <<running, exc>>
              ELSE /\ ready = <<>>
                   /\ d = 0
                   /\ readyList' = <<>>
                   /\ readyAtSelect' = <<>>
                   /\ iterLog' = << <<"selecterr", "-">> >>
                   /\ exc' = "ConnectionLost"
                   /\ IF SelectErrorRaises
                      THEN pc' = "raised" /\ running' = Finally(running)
                      ELSE pc' = "top" /\ running' = running
                   /\ UNCHANGED clock
    /\ now' = clock'
    /\ timerIdx' = 0
    /\ timesChanged' = 0
    /\ UNCHANGED <<pollTime, sockets, timers, nextTimerActivation, onPoll,
                   activationTime, eventLoop, selectables, hookPending,
                   stopRequested>>

StopEvents(stop) == IF stop THEN << <<"stop", "-">> >> ELSE <<>>

\* run: one pass of "for ready in readyList": the socket's poll runs (it may
\* call stop) and returns or raises; a caught failure triggers
\* onNonfatalException with its information
PollSocket(out) ==
    /\ UNCHANGED evVars
    /\ UNCHANGED <<diagVars, lastCall, pollReturn>>
    /\ pc = "sockets"
    /\ readyList # <<>>
    /\ LET s == Head(readyList)
           flag == IF Stops(out) THEN StopFlag ELSE running
       IN  /\ readyList' = Tail(readyList)
           /\ stopRequested' = (stopRequested \/ Stops(out))
           /\ IF ~Raises(out)
              THEN /\ iterLog' = Append(iterLog, <<"poll_ok", s>>)
                                  \o StopEvents(Stops(out))
                   /\ running' = flag
                   /\ UNCHANGED <<pc, exc>>
              ELSE IF Caught(out)
              THEN /\ iterLog' = iterLog \o << <<"poll_" \o out, s>>,
                                               <<"nfhook_" \o out, s>> >>
                                  \o HookOutput(onNonfatalException,
                                                showNonfatalExceptions, s)
                   /\ running' = flag
                   /\ UNCHANGED <<pc, exc>>
              ELSE /\ iterLog' = Append(iterLog, <<"poll_" \o out, s>>)
                   /\ running' = Finally(flag)
                   /\ pc' = "raised"
                   /\ exc' = ExcOf(out)
    /\ UNCHANGED <<pollTime, sockets, timers, nextTimerActivation, onPoll,
                   activationTime, eventLoop, selectables, timeout, now, timerIdx,
                   timesChanged, hookPending, clock, readyAtSelect>>

\* run: one pass of "for ready in readyList" in which the socket's poll
\* calls add(s) or remove(s) on the loop it is handed, and returns: the list
\* self.sockets changes, selectDict and selectables, built before the while
\* loop, do not
PollSocketEdit(op, s) ==
    /\ UNCHANGED evVars
    /\ UNCHANGED <<diagVars, pollReturn>>
    /\ pc = "sockets"
    /\ readyList # <<>>
    /\ readyList' = Tail(readyList)
    /\ iterLog' = Append(iterLog, <<"poll_ok", Head(readyList)>>)
    /\ IF op = "add"
       THEN /\ s \notin Range(sockets)
            /\ sockets' = Append(sockets, s)
       ELSE /\ s \in Range(sockets)
            /\ sockets' = RemoveFirst(sockets, s)
    /\ lastCall' = [op |-> op, item |-> s, err |-> "None"]
    /\ UNCHANGED <<pollTime, timers, nextTimerActivation, running, onPoll,
                   activationTime, eventLoop, pc, selectables, timeout, now,
                   timerIdx, timesChanged, hookPending, exc, clock,
                   readyAtSelect, stopRequested>>

\* run: the for loop over readyList has ended; now = time.time() and
\* timesChanged = 0 (tick units of time have passed since select returned)
StartTimers(tick) ==
    /\ UNCHANGED evVars
    /\ UNCHANGED <<diagVars, lastCall, pollReturn>>
    /\ pc = "sockets"
    /\ readyList = <<>>
    /\ clock + tick <= MaxTime
    /\ clock' = clock + tick
    /\ now' = clock'
    /\ timesChanged' = 0
    /\ timerIdx' = 0
    /\ pc' = "timers"
    /\ UNCHANGED <<pollTime, sockets, timers, nextTimerActivation, running, onPoll,
                   activationTime, eventLoop, selectables, timeout, readyList,
                   hookPending, exc, iterLog, readyAtSelect, stopRequested>>

\* run: one pass of "for timer in self.timers": the list iterator hands out
\* the entry at its index and moves on; timer.poll(now) activates the handler
\* when the timer is due (the handler may call stop, and may raise); a
\* OneshotTimer then removes itself from the loop, a PeriodicTimer moves its
\* activation time past now and returns 1
PollTimer(out) ==
    /\ UNCHANGED evVars
    /\ UNCHANGED <<diagVars, lastCall>>
    /\ pc = "timers"
    /\ timerIdx < Len(timers)
    /\ LET t == timers[timerIdx + 1]
           flag == IF Stops(out) THEN StopFlag ELSE running
           stop == Stops(out)
       IN  /\ timerIdx' = timerIdx + 1
           /\ pollReturn' =
                 IF /\ Fires(now, activationTime[t])
                    /\ ~Raises(out)
                    /\ t \in PeriodicTimers
                    /\ ~Diverges(activationTime[t], Period[t], now)
                 THEN PeriodicReturn
                 ELSE None
           /\ IF ~Fires(now, activationTime[t])
              THEN /\ out = "ok"
                   /\ iterLog' = Append(iterLog, <<"timer", t>>)
                   /\ UNCHANGED <<timers, activationTime, timesChanged, running,
                                  pc, exc, stopRequested>>
              ELSE /\ iterLog' = iterLog \o << <<"timer", t>>, <<"fire", t>> >>
                                  \o StopEvents(stop)
                   /\ stopRequested' = (stopRequested \/ stop)
                   /\ IF Raises(out)
                      THEN /\ pc' = "raised"
                           /\ exc' = ExcOf(out)
                           /\ running' = Finally(flag)
                           /\ UNCHANGED <<timers, activationTime, timesChanged>>
                      ELSE IF t \in OneshotTimers
                      THEN /\ timers' = RemoveFirst(timers, t)
                           /\ running' = flag
                           /\ UNCHANGED <<activationTime, timesChanged, pc, exc>>
                      ELSE IF Diverges(activationTime[t], Period[t], now)
                      THEN /\ pc' = "hung"
                           /\ running' = flag
                           /\ UNCHANGED <<timers, activationTime, timesChanged, exc>>
                      ELSE /\ activationTime' =
                                [activationTime EXCEPT
                                    ![t] = AdvancePast(@, Period[t], now)]
                           /\ timesChanged' = 1
                           /\ running' = flag
                           /\ UNCHANGED <<timers, pc, exc>>
    /\ UNCHANGED <<pollTime, sockets, nextTimerActivation, onPoll, eventLoop,
                   selectables, timeout, readyList, now, hookPending, clock,
                   readyAtSelect>>

\* run: the for loop over self.timers has ended; the cached activation time
\* is recomputed when a poll returned 1, then self.onPoll() starts its
\* dispatch (Event.__call__ on the onPoll Event)
EndTimers ==
    /\ UNCHANGED evVars
    /\ UNCHANGED <<diagVars, lastCall, pollReturn>>
    /\ pc = "timers"
    /\ timerIdx >= Len(timers)
    /\ nextTimerActivation' =
          IF timesChanged = 1
          THEN UpdateNextTimerActivation(timers, activationTime)
          ELSE nextTimerActivation
    /\ iterLog' = Append(iterLog, <<"onPoll", "-">>)
    /\ IF HasClients(onPoll)
       THEN /\ hookPending' = Keys(onPoll)
            /\ pc' = "hook"
       ELSE /\ hookPending' = NoClients
            /\ pc' = "top"
    /\ UNCHANGED <<pollTime, sockets, timers, running, onPoll, activationTime,
                   eventLoop, selectables, timeout, readyList, now, timerIdx,
                   timesChanged, exc, clock, readyAtSelect, stopRequested>>

\* the dispatch of onPoll: the next observer is called (it may call stop);
\* a truthy result ends the dispatch, a raise ends run
HookInvoke(c, out) ==
    /\ UNCHANGED evVars
    /\ UNCHANGED <<diagVars, lastCall, pollReturn>>
    /\ pc = "hook"
    /\ hookPending[c] > 0
    /\ LET rest == [hookPending EXCEPT ![c] = @ - 1]
           flag == IF Stops(out) THEN StopFlag ELSE running
       IN  /\ iterLog' = Append(iterLog, <<"obs", c>>) \o StopEvents(Stops(out))
           /\ stopRequested' = (stopRequested \/ Stops(out))
           /\ IF Raises(out)
              THEN /\ pc' = "raised"
                   /\ exc' = ExcOf(out)
                   /\ running' = Finally(flag)
                   /\ hookPending' = rest
              ELSE /\ running' = flag
                   /\ exc' = exc
                   /\ IF Truthy(ResultOf(out)) \/ ~HasClients(rest)
                      THEN hookPending' = NoClients /\ pc' = "top"
                      ELSE hookPending' = rest /\ pc' = "hook"
    /\ UNCHANGED <<pollTime, sockets, timers, nextTimerActivation, onPoll,
                   activationTime, eventLoop, selectables, timeout, readyList,
                   now, timerIdx, timesChanged, clock, readyAtSelect>>

\* client code calling timer.poll(n) itself, outside run, on a timer that was
\* added to the loop, with times that never go back: OneshotTimer.poll or
\* PeriodicTimer.poll; the handler returns or raises
DirectPoll(t, n, out) ==
    /\ UNCHANGED evVars
    /\ pc = "idle"
    /\ eventLoop[t]
    /\ n >= now
    /\ Len(iterLog) < MaxLog
    /\ now' = n
    /\ IF ~Fires(n, activationTime[t])
       THEN /\ out = "ok"
            /\ iterLog' = Append(iterLog, <<"timer", t>>)
            /\ pollReturn' = None
            /\ lastCall' = [op |-> "poll", item |-> t, err |-> "None"]
            /\ UNCHANGED <<timers, activationTime, pc>>
       ELSE /\ iterLog' = iterLog \o << <<"timer", t>>, <<"fire", t>> >>
            /\ IF Raises(out)
               THEN /\ pollReturn' = None
                    /\ lastCall' = [op |-> "poll", item |-> t, err |-> ExcOf(out)]
                    /\ UNCHANGED <<timers, activationTime, pc>>
               ELSE IF t \in OneshotTimers
               THEN /\ pollReturn' = None
                    /\ IF t \in Range(timers)
                       THEN /\ timers' = RemoveFirst(timers, t)
                            /\ lastCall' = [op |-> "poll", item |-> t,
                                             err |-> "None"]
                       ELSE /\ timers' = timers
                            /\ lastCall' = [op |-> "poll", item |-> t,
                                             err |-> "ValueError"]
                    /\ UNCHANGED <<activationTime, pc>>
               ELSE IF Diverges(activationTime[t], Period[t], n)
               THEN /\ pc' = "hung"
                    /\ pollReturn' = None
                    /\ lastCall' = [op |-> "poll", item |-> t, err |-> "None"]
                    /\ UNCHANGED <<timers, activationTime>>
               ELSE /\ activationTime' =
                         [activationTime EXCEPT ![t] = AdvancePast(@, Period[t], n)]
                    /\ pollReturn' = PeriodicReturn
                    /\ lastCall' = [op |-> "poll", item |-> t, err |-> "None"]
                    /\ UNCHANGED <<timers, pc>>
    /\ UNCHANGED <<pollTime, sockets, nextTimerActivation, running, onPoll,
                   diagVars, eventLoop, selectables, timeout, readyList, timerIdx,
                   timesChanged, hookPending, exc, clock, readyAtSelect,
                   stopRequested>>

\* the Event under study, next to an EventLoop that is left alone
InitEvent == EvInit /\ LoopInit

NextEvent ==
    \/ \E c \in Callbacks : EvObserve(c)
    \/ \E c \in Callbacks : EvUnobserve(c)
    \/ \E f \in Fallbacks \cup {"None"} : EvSetUnhandled(f)
    \/ \E a \in ArgVals : EvTrigger(a)
    \/ \E c \in Callbacks, e \in Effects, r \in Outcomes : EvInvoke(c, e, r)

SpecEvent == InitEvent /\ [][NextEvent]_vars

\* an Event as attach builds it around a method of the class, Event(method),
\* with the observers and traces client code adds to it later
InitAttach ==
    /\ clients = Attach("onNonfatalException")
    /\ unhandledCallback = "None"
    /\ evpc = "idle"
    /\ pending = NoClients
    /\ evArgs = "a1"
    /\ calls = <<>>
    /\ result = "None"
    /\ startClients = NoClients
    /\ startUnhandled = "None"
    /\ prevClients = NoClients
    /\ lastOp = [op |-> "init", cb |-> "c1", err |-> "None"]
    /\ staleCall = FALSE
    /\ traceFmt = NoTraces
    /\ output = <<>>
    /\ LoopInit

NextAttach ==
    \/ \E c \in Callbacks : EvObserve(c)
    \/ \E c \in Callbacks : EvUnobserve(c)
    \/ \E f \in Fallbacks \cup {"None"} : EvSetUnhandled(f)
    \/ \E fmt \in TraceFormats : EvTrace(fmt)
    \/ \E a \in ArgVals : EvTrigger(a)
    \/ \E c \in Callbacks, e \in Effects, r \in Outcomes : EvInvoke(c, e, r)

SpecAttach == InitAttach /\ [][NextAttach]_vars

\* the EventLoop with its sockets, timers and onPoll observers
Init == EvInitEmpty /\ LoopInit

Next ==
    \/ \E s \in Sockets : AddSocket(s)
    \/ \E t \in RunTimers : AddTimer(t)
    \/ \E s \in Sockets : RemoveSocket(s)
    \/ \E t \in RunTimers : RemoveTimer(t)
    \/ \E v \in PollTimes : SetPollTime(v)
    \/ \E c \in HookObservers : OnPollObserve(c)
    \/ \E v \in ShowFlags : SetShowNonfatal(v)
    \/ \E x \in Others : AddOther(x)
    \/ \E x \in Others : RemoveOther(x)
    \/ StopIdle
    \/ \E ok \in BOOLEAN : RunStart(ok)
    \/ LoopExit
    \/ \E ready \in ReadyLists(Sockets), d \in 0..MaxTime, ok \in BOOLEAN :
          WaitSelect(ready, d, ok)
    \/ \E out \in SocketOutcomes : PollSocket(out)
    \/ \E tick \in Ticks : StartTimers(tick)
    \/ \E out \in HandlerOutcomes : PollTimer(out)
    \/ EndTimers
    \/ \E c \in HookObservers, out \in ObserverOutcomes : HookInvoke(c, out)

Spec == Init /\ [][Next]_vars

\* timers added to a loop and polled by client code
NextTimer ==
    \/ \E t \in TimerIds : AddTimer(t)
    \/ \E t \in TimerIds : RemoveTimer(t)
    \/ \E t \in TimerIds, n \in 0..MaxPollTime, out \in HandlerOutcomes \ {"stop"} :
          DirectPoll(t, n, out)

SpecTimer == Init /\ [][NextTimer]_vars

\* a loop with timers only: no socket is registered, so none is ever ready
\* and select returns when its timeout has passed
NextLive ==
    \/ \E t \in TimerIds : AddTimer(t)
    \/ RunStart(TRUE)
    \/ \E d \in 0..MaxTime : WaitSelect(<<>>, d, TRUE)
    \/ \E tick \in Ticks : StartTimers(tick)
    \/ \E out \in HandlerOutcomes : PollTimer(out)
    \/ EndTimers
    \/ LoopExit

\* run is sequential code: once started, each of its steps is taken when it
\* can be (select returns at its timeout, the calls it makes return or
\* raise), and time does not stand still for ever: the clock has moved at
\* some read of time.time() when it is read again and again
FairLive ==
    /\ WF_vars(\E d \in 0..MaxTime : WaitSelect(<<>>, d, TRUE))
    /\ WF_vars(\E tick \in Ticks : StartTimers(tick))
    /\ SF_vars(StartTimers(1))
    /\ WF_vars(\E out \in HandlerOutcomes : PollTimer(out))
    /\ WF_vars(EndTimers)
    /\ WF_vars(LoopExit)

SpecLive == Init /\ [][NextLive]_vars /\ FairLive

\* a loop with sockets only, whose polls add sockets to the loop and remove
\* them from it while run is in progress
NextDyn ==
    \/ \E s \in Sockets : AddSocket(s)
    \/ RunStart(TRUE)
    \/ \E ready \in ReadyLists(Sockets) : WaitSelect(ready, 0, TRUE)
    \/ \E out \in {"ok", "stop"} : PollSocket(out)
    \/ \E op \in {"add", "remove"}, s \in Sockets : PollSocketEdit(op, s)
    \/ StartTimers(0)
    \/ EndTimers
    \/ LoopExit

SpecDyn == Init /\ [][NextDyn]_vars

(***************************************************************************)
(* Properties of Event                                                     *)
(***************************************************************************)
Count(cs, c) == Cardinality({i \in 1..Len(cs) : cs[i].cb = c})
NoAbort(cs) == \A i \in 1..Len(cs) : cs[i].ret \in Falsy
Support(cl) == {c \in Callbacks : cl[c] > 0}
LastCall == calls[Len(calls)]

\* C1: a trigger that ran to its end with no callback returning a truthy
\* value has called every callback registered at its start exactly once, and
\* no other, each with the arguments the trigger was given, whatever the
\* order of the observe calls that registered them.
C1_EveryCallbackOnce ==
    (evpc = "done" /\ Support(startClients) # {} /\ NoAbort(calls)) =>
        /\ \A c \in Callbacks :
              Count(calls, c) = IF c \in Support(startClients) THEN 1 ELSE 0
        /\ \A i \in 1..Len(calls) : calls[i].args = evArgs

C1_Witness ==
    /\ evpc = "done"
    /\ Support(startClients) = Callbacks
    /\ clients = startClients
    /\ NoAbort(calls)
    /\ Len(calls) = 3
    /\ evArgs = "a2"

\* C2: observe is idempotent on the callback's identity: a key is held once
\* however often it was observed (constructor included), an observe of a
\* registered callback leaves the register as it was, and no trigger calls a
\* callback twice (a complete one calls it exactly once).
C2_ObserveIdempotent ==
    /\ \A c \in Callbacks : clients[c] <= 1
    /\ (lastOp.op = "observe" /\ prevClients[lastOp.cb] > 0) => clients = prevClients
    /\ \A c \in Callbacks : Count(calls, c) <= 1
    /\ (evpc = "done" /\ NoAbort(calls)) =>
          \A c \in Support(startClients) : Count(calls, c) = 1

C2_Witness ==
    /\ evpc = "done"
    /\ NoAbort(calls)
    /\ lastOp.op = "observe"
    /\ prevClients[lastOp.cb] > 0
    /\ startClients[lastOp.cb] > 0
    /\ Count(calls, lastOp.cb) = 1

\* C3: nothing is called after a callback that returned a truthy value, and
\* the trigger then returns exactly that value; when no callback returns a
\* truthy value every registered callback is called and the trigger returns
\* None.
C3_AbortOnTruthy ==
    /\ \A i \in 1..(Len(calls) - 1) : calls[i].ret \in Falsy
    /\ evpc = "dispatch" => NoAbort(calls)
    /\ (evpc = "done" /\ Support(startClients) # {}) =>
          IF LastCall.ret \in TruthyVals
          THEN result = LastCall.ret
          ELSE /\ result = "None"
               /\ \A c \in Support(startClients) : Count(calls, c) = 1

C3_Witness ==
    /\ evpc = "done"
    /\ Support(startClients) = Callbacks
    /\ Len(calls) = 2
    /\ calls[1].ret = "zero"
    /\ calls[2].ret = "t2"
    /\ result = "t2"

\* C4: a trigger on an Event without callbacks calls the unhandled callback
\* once with the trigger's arguments when one is set, and otherwise calls
\* nothing and leaves the Event as it was; a trigger on an Event with at
\* least one callback never calls the unhandled callback.
C4_UnhandledCallback ==
    /\ (evpc = "done" /\ Support(startClients) = {}) =>
          /\ calls = IF startUnhandled # "None"
                     THEN <<[cb |-> startUnhandled, args |-> evArgs, ret |-> "None"]>>
                     ELSE <<>>
          /\ startUnhandled = "None" =>
                (clients = startClients /\ unhandledCallback = startUnhandled)
          /\ result = "None"
    /\ Support(startClients) # {} =>
          \A i \in 1..Len(calls) : calls[i].cb \notin Fallbacks

C4_Witness ==
    /\ evpc = "done"
    /\ Support(startClients) = {}
    /\ startUnhandled = "fb"
    /\ evArgs = "a2"
    /\ Len(calls) = 1

\* C5: the dispatch walks the list of keys taken when the trigger started:
\* whatever the callbacks observe or unobserve meanwhile, what is left to call
\* is what was registered at the start and not yet called, a complete
\* dispatch has called exactly those callbacks once each, and the dispatch
\* fails only when a callback itself raises.
C5_Snapshot ==
    /\ evpc = "dispatch" =>
          \A c \in Callbacks :
             pending[c] = IF c \in Visited(calls) THEN 0 ELSE startClients[c]
    /\ (evpc = "done" /\ NoAbort(calls) /\ Support(startClients) # {}) =>
          \A c \in Callbacks :
             Count(calls, c) = IF c \in Support(startClients) THEN 1 ELSE 0
    /\ evpc = "raised" => LastCall.ret = "raise"

C5_Witness ==
    /\ evpc = "done"
    /\ NoAbort(calls)
    /\ staleCall
    /\ \E c \in Callbacks : clients[c] > 0 /\ startClients[c] = 0
    /\ \E c \in Callbacks : clients[c] = 0 /\ startClients[c] > 0

\* C18: unobserve(c) of a registered callback removes c and keeps every
\* other callback registered, and no trigger started while c is not
\* registered calls c; unobserve(c) of a callback that is not registered
\* fails with KeyError and leaves the register as it was.
C18_Unobserve ==
    /\ lastOp.op = "unobserve" =>
          IF prevClients[lastOp.cb] > 0
          THEN /\ lastOp.err = "None"
               /\ clients[lastOp.cb] = 0
               /\ \A c \in Callbacks \ {lastOp.cb} : clients[c] = prevClients[c]
          ELSE /\ lastOp.err = "KeyError"
               /\ clients = prevClients
    /\ \A c \in Callbacks : startClients[c] = 0 => Count(calls, c) = 0

C18_Witness ==
    /\ lastOp.op = "unobserve"
    /\ lastOp.err = "KeyError"
    /\ Cardinality(Support(clients)) = 2

(***************************************************************************)
(* Properties of EventLoop.run                                             *)
(***************************************************************************)
SockPollKinds == {"poll_ok", "poll_nonfatal", "poll_fatal"}
TimerKinds == {"timer", "fire"}
HookKinds == {"onPoll", "obs"}
Positions(kinds) == {i \in 1..Len(iterLog) : iterLog[i][1] \in kinds}
\* the sockets polled since the last select, in order
RECURSIVE PolledIn(_)
PolledIn(log) ==
    IF log = <<>> THEN <<>>
    ELSE IF Head(log)[1] \in SockPollKinds
         THEN <<Head(log)[2]>> \o PolledIn(Tail(log))
         ELSE PolledIn(Tail(log))
\* a pass of the loop has reached its end
PassComplete == pc \in {"top", "returned"} /\ Positions({"select"}) # {}

\* C6: in every pass of run the wait comes first, every poll of a ready
\* socket comes before every poll of a timer, every poll of a timer comes
\* before the onPoll trigger, no ready socket is left unpolled once the timer
\* step has started, and a complete pass has triggered onPoll exactly once,
\* as its last step before the next wait.
C6_PassOrder ==
    /\ iterLog # <<>> => Positions({"select", "selecterr"}) = {1}
    /\ \A i \in Positions(SockPollKinds) : \A j \in Positions(TimerKinds) : i < j
    /\ \A i \in Positions(TimerKinds) : \A j \in Positions(HookKinds) : i < j
    /\ \A i \in Positions(SockPollKinds) : \A j \in Positions(HookKinds) : i < j
    /\ pc \in {"timers", "hook"} => readyList = <<>>
    /\ Cardinality(Positions({"onPoll"})) <= 1
    /\ pc = "hook" => Cardinality(Positions({"onPoll"})) = 1
    /\ PassComplete =>
          /\ Cardinality(Positions({"onPoll"})) = 1
          /\ \A i \in Positions({"onPoll"}) : \A j \in (i + 1)..Len(iterLog) :
                iterLog[j][1] \in {"obs", "stop"}

C6_Witness ==
    /\ pc = "top"
    /\ running = Some(1)
    /\ Len(readyAtSelect) = 2
    /\ Cardinality(Positions({"timer"})) = 2
    /\ Positions({"fire"}) # {}
    /\ Positions({"obs"}) # {}

\* C7: once stop() has been called inside a pass, no further wait is
\* started, no timer is polled twice, and when run returns the pass in which
\* stop was called has polled every socket reported ready and every
\* registered timer and has triggered onPoll.
C7_StopCooperative ==
    /\ stopRequested => Positions({"stop"}) # {}
    /\ \A i, j \in Positions({"timer"}) : iterLog[i] = iterLog[j] => i = j
    /\ pc = "returned" =>
          /\ stopRequested
          /\ PolledIn(iterLog) = readyAtSelect
          /\ \A t \in Range(timers) : \E i \in Positions({"timer"}) : iterLog[i][2] = t
          /\ Positions({"onPoll"}) # {}

\* C8: whenever run has exited, by return or by any exception, the running
\* flag is 0, and the flag is 1 only while run is in progress.
C8_RunningCleared ==
    /\ pc \in {"returned", "raised"} => running = Some(0)
    /\ running = Some(1) => pc \in {"top", "sockets", "timers", "hook", "hung"}

C8_Witness ==
    /\ pc = "raised"
    /\ exc = "Error"
    /\ Positions({"fire"}) # {}
    /\ ~stopRequested
    /\ running = Some(0)

\* C9: a non-fatal failure of a socket's poll triggers onNonfatalException
\* once with that failure, the hook is triggered for nothing else, the other
\* ready sockets are still polled, the pass goes on to the timers and onPoll
\* and run to the next pass, and the socket stays registered; any other
\* failure of a poll is not reported and ends run.
C9_NonfatalIsolated ==
    /\ \A i \in Positions({"poll_nonfatal"}) :
          /\ i < Len(iterLog)
          /\ iterLog[i + 1] = <<"nfhook_nonfatal", iterLog[i][2]>>
          /\ iterLog[i][2] \in Range(sockets)
    /\ \A i \in Positions({"nfhook_nonfatal", "nfhook_fatal"}) :
          i > 1 /\ iterLog[i - 1] = <<"poll_nonfatal", iterLog[i][2]>>
    /\ (pc \in {"timers", "hook"} \/ PassComplete) => PolledIn(iterLog) = readyAtSelect
    /\ (PassComplete /\ Positions({"poll_nonfatal"}) # {}) =>
          /\ timerIdx >= Len(timers)
          /\ Positions({"onPoll"}) # {}
          /\ (pc = "top" /\ ~stopRequested) => LoopContinues(running)
    /\ \A i \in Positions({"poll_fatal"}) :
          i = Len(iterLog) /\ pc = "raised" /\ exc = "Error"

C9_Witness ==
    /\ pc = "top"
    /\ LoopContinues(running)
    /\ Len(readyAtSelect) = 2
    /\ iterLog[2] = <<"poll_nonfatal", readyAtSelect[1]>>
    /\ iterLog[4] = <<"poll_ok", readyAtSelect[2]>>
    /\ Positions({"timer"}) # {}

\* C10: when select fails, run ends with ConnectionLost: nothing is polled,
\* onPoll is not triggered, the wait is not tried again, and the running
\* flag is 0.
C10_SelectFailure ==
    (exc = "ConnectionLost" \/ Positions({"selecterr"}) # {}) =>
        /\ pc = "raised"
        /\ exc = "ConnectionLost"
        /\ iterLog = << <<"selecterr", "-">> >>
        /\ running = Some(0)

C10_Witness ==
    /\ exc = "ConnectionLost"
    /\ pc = "raised"
    /\ selectables # {}
    /\ timers # <<>>
    /\ clock > 0

(***************************************************************************)
(* Properties of EventLoop.add and EventLoop.remove                        *)
(***************************************************************************)
\* C11: add(item) and remove(item) with an item that is neither a socket nor
\* a timer raise TypeError at once, and leave the list of sockets, the list
\* of timers and the cached next activation time as they were.
C11_TypeErrorNoChange ==
    [][\A x \in Others :
          (AddOther(x) \/ RemoveOther(x)) =>
              /\ lastCall'.err = "TypeError"
              /\ UNCHANGED <<sockets, timers, nextTimerActivation>>]_vars

C11_Witness ==
    /\ lastCall = [op |-> "add", item |-> "x1", err |-> "TypeError"]
    /\ sockets # <<>>
    /\ timers # <<>>
    /\ nextTimerActivation # None

(***************************************************************************)
(* Properties of the timers                                                *)
(***************************************************************************)
\* the activations of timer t in the record of polls
Fired(t) == {i \in Positions({"fire"}) : iterLog[i][2] = t}

\* C12: for a PeriodicTimer with period P > 0 and activation time D, a
\* poll(now) with now > D calls the handler exactly once, sets the activation
\* time to the smallest D + k*P (k >= 1) that exceeds now, and returns 1; a
\* poll that does not fire calls nothing, leaves the activation time alone
\* and returns None.
C12_PeriodicCatchUp ==
    [][\A t \in PeriodicTimers, n \in 0..MaxPollTime :
          (DirectPoll(t, n, "ok") /\ Period[t] > 0) =>
              IF n > activationTime[t]
              THEN /\ iterLog' = iterLog \o << <<"timer", t>>, <<"fire", t>> >>
                   /\ \E k \in 1..(MaxPollTime + 1) :
                         activationTime'[t] = activationTime[t] + k * Period[t]
                   /\ activationTime'[t] > n
                   /\ activationTime'[t] - Period[t] <= n
                   /\ pollReturn' = Some(1)
              ELSE /\ iterLog' = Append(iterLog, <<"timer", t>>)
                   /\ activationTime' = activationTime
                   /\ pollReturn' = None]_vars

\* C13: whatever polls are made on a OneshotTimer, with times that never go
\* back, a second poll after its activation included, its handler is called
\* at most once.
C13_OneshotAtMostOnce ==
    \A t \in OneshotTimers : Cardinality(Fired(t)) <= 1

\* C14: for a PeriodicTimer with period zero, every poll(now) with now at or
\* after the activation time calls the handler exactly once, sets the
\* activation time to now and returns 1 (so that, in a running loop, the
\* timer goes off once in every pass).
C14_ZeroPeriod ==
    [][\A t \in PeriodicTimers, n \in 0..MaxPollTime :
          (DirectPoll(t, n, "ok") /\ Period[t] = 0 /\ n >= activationTime[t]) =>
              /\ iterLog' = iterLog \o << <<"timer", t>>, <<"fire", t>> >>
              /\ activationTime'[t] = n
              /\ pollReturn' = Some(1)
              /\ pc' = pc]_vars

(***************************************************************************)
(* Properties of the timeout and of the cached activation time             *)
(***************************************************************************)
Max(a, b) == IF a >= b THEN a ELSE b
Min(a, b) == IF a <= b THEN a ELSE b

\* C15: the timeout handed to select at the start of a pass is None when
\* neither pollTime nor a cached activation time is present, pollTime when
\* no activation time is cached, max(0, cached activation time - current
\* time) when pollTime is None, and the smaller of the two when both are
\* present; it is never negative. (The step taken at the top of the loop
\* with the flag set is the one that computes the timeout and calls select.)
C15_Timeout ==
    [][(pc = "top" /\ LoopContinues(running)) =>
          /\ timeout' =
                IF pollTime = None /\ nextTimerActivation = None THEN None
                ELSE IF nextTimerActivation = None THEN pollTime
                ELSE IF pollTime = None
                THEN Some(Max(0, nextTimerActivation[1] - clock))
                ELSE Some(Min(pollTime[1], Max(0, nextTimerActivation[1] - clock)))
          /\ timeout' # None => timeout'[1] >= 0]_vars

C15_Witness ==
    /\ pc = "sockets"
    /\ pollTime # None
    /\ nextTimerActivation # None
    /\ nextTimerActivation[1] < clock
    /\ timeout = Some(0)

\* run has just started with a single timer, due in the future, and no
\* pollTime
OneTimerDue ==
    /\ pc = "top"
    /\ LoopContinues(running)
    /\ iterLog = <<>>
    /\ pollTime = None
    /\ Len(timers) = 1
    /\ activationTime[timers[1]] > clock

\* the pass in progress has called a timer's handler and then triggered
\* onPoll
FiredThenHook ==
    \E i \in Positions({"fire"}) : \E j \in Positions({"onPoll"}) : i < j

\* C16: with one timer registered, due in the future, no pollTime and no
\* socket ever ready, run never calls the timer's handler in a pass whose
\* now is not past the activation time, and (time moving on, select
\* returning at its timeout) it reaches a pass that calls the handler and
\* then triggers onPoll - unless the handler raises, which ends run.
C16_TimerThenHook ==
    /\ [][(\E i \in 1..Len(iterLog') : i > Len(iterLog) /\ iterLog'[i][1] = "fire")
             => now > activationTime[timers[timerIdx + 1]]]_vars
    /\ OneTimerDue ~> (FiredThenHook \/ pc = "raised")

C16_Witness ==
    /\ FiredThenHook
    /\ Cardinality({t \in TimerIds : eventLoop[t]}) = 1
    /\ pollTime = None
    /\ timeout = Some(0)
    /\ pc = "top"

\* the earliest activation time among the timers of a list, None for none
MinDeadline(tms, act) ==
    IF tms = <<>> THEN None
    ELSE Some(CHOOSE m \in {act[t] : t \in Range(tms)} :
                 \A t \in Range(tms) : m <= act[t])

\* C17: right after add(timer) the timer is in the list of timers, it is
\* bound to the loop, and the cached activation time is the earliest
\* activation time of the registered timers; and once the timer step of a
\* pass in which a poll returned 1 is over, the cached time is the earliest
\* activation time of the timers registered then (None when there is none).
C17_CachedActivation ==
    /\ (lastCall.op = "add" /\ lastCall.item \in TimerIds /\ lastCall.err = "None") =>
          /\ lastCall.item \in Range(timers)
          /\ eventLoop[lastCall.item]
          /\ nextTimerActivation = MinDeadline(timers, activationTime)
    /\ (Positions({"onPoll"}) # {} /\ timesChanged = 1) =>
          nextTimerActivation = MinDeadline(timers, activationTime)

C17_Witness ==
    /\ Positions({"onPoll"}) # {}
    /\ timesChanged = 1
    /\ Positions({"fire"}) # {}
    /\ timers = <<"p1">>
    /\ eventLoop["o1"]
    /\ nextTimerActivation = Some(activationTime["p1"])
    /\ nextTimerActivation[1] > now

(***************************************************************************)
(* Properties of the diagnostics                                           *)
(***************************************************************************)
\* C19: a new EventLoop has an onPoll Event without observers and an
\* onNonfatalException Event observed by the default printer alone; every
\* non-fatal failure reported through the hook prints exactly one line when
\* showNonfatalExceptions is set and none when it is cleared, and the loop
\* prints nothing else.
C19_Diagnostics ==
    /\ lastCall.op = "init" =>
          /\ \A c \in Callbacks : onPoll[c] = 0
          /\ \A c \in Callbacks :
                onNonfatalException[c] = IF c = DefaultPrinter THEN 1 ELSE 0
          /\ showNonfatalExceptions = 1
    /\ \A i \in Positions({"nfhook_nonfatal"}) :
          IF showNonfatalExceptions # 0
          THEN i < Len(iterLog) /\ iterLog[i + 1] = <<"print", iterLog[i][2]>>
          ELSE i = Len(iterLog) \/ iterLog[i + 1][1] # "print"
    /\ \A i \in Positions({"print"}) :
          i > 1 /\ iterLog[i - 1] = <<"nfhook_nonfatal", iterLog[i][2]>>

C19_Witness ==
    /\ showNonfatalExceptions = 0
    /\ Cardinality(Positions({"nfhook_nonfatal"})) = 2
    /\ Positions({"print"}) = {}
    /\ pc = "top"

(***************************************************************************)
(* Properties of the timer step of run                                     *)
(***************************************************************************)
\* C20: in every pass of run, each timer that is registered and is not
\* removed during the timer step is polled exactly once in that step (all
\* with the same now), also when a OneshotTimer that fires removes itself
\* from the loop during the step.
C20_EveryTimerPolled ==
    Positions({"onPoll"}) # {} =>
        \A t \in Range(timers) :
           Cardinality({i \in Positions({"timer"}) : iterLog[i][2] = t}) = 1

(***************************************************************************)
(* Properties of the sockets of a running loop                             *)
(***************************************************************************)
\* C21: the sockets waited on and polled in each pass of run are the ones
\* registered at that time: a socket added with add() during run is waited
\* on (and polled when ready) in the passes that follow, a socket removed
\* with remove() during run is not polled in any later pass.
C21_RegisteredSockets ==
    [][(pc = "top" /\ LoopContinues(running)) =>
          /\ selectables = Range(sockets)
          /\ Range(readyList') \subseteq Range(sockets)]_vars

\* C23: PeriodicTimer.poll(now) returns for every period >= 0, the period
\* zero included: no poll is left for ever in its catch-up loop, so a pass of
\* run over periodic timers always goes on to the onPoll hook.
C23_PollTerminates ==
    pc # "hung"

(***************************************************************************)
(* Properties of the cached activation time                                *)
(***************************************************************************)
\* C26: in every state the loop can be in, at the computation of a timeout
\* and after any sequence of add, remove and timer polls, a loop with at
\* least one registered timer has a cached activation time, and that time is
\* not later than the earliest activation time of the registered timers.
C26_CachedNotLate ==
    timers # <<>> =>
        /\ nextTimerActivation # None
        /\ nextTimerActivation[1] <= MinDeadline(timers, activationTime)[1]

\* a timeout is about to be computed with the cached time stale: the timer
\* it came from has left the loop, and it is earlier than the only
\* activation time left
C26_Witness ==
    /\ pc = "top"
    /\ running = Some(1)
    /\ timers = <<"p1">>
    /\ nextTimerActivation # None
    /\ nextTimerActivation[1] < activationTime["p1"]

\* C22: a cached activation time left stale by the removal of a timer makes
\* at most one pass of run wake early: at the top of a pass that follows a
\* complete pass in which no oneshot timer fired (and so none left the
\* loop), the timeout handed to select is the one that the registered
\* timers' earliest activation time and pollTime give.
C22_StaleOnePass ==
    [][(/\ pc = "top"
        /\ LoopContinues(running)
        /\ iterLog # <<>>
        /\ \A t \in OneshotTimers : Fired(t) = {}) =>
          timeout' = SelectTimeout(pollTime,
                                   MinDeadline(timers, activationTime),
                                   clock)]_vars

(***************************************************************************)
(* Properties of failures outside the socket polls                         *)
(***************************************************************************)
\* run has ended with the failure of outcome out, after the log entries
\* added: nothing is reported to onNonfatalException or printed, the flag is 0
FailureEndsRun(out, added) ==
    /\ pc' = "raised"
    /\ exc' = (IF out = "nonfatal" THEN "NonfatalException" ELSE "Error")
    /\ running' = Some(0)
    /\ iterLog' = iterLog \o added
    /\ UNCHANGED <<timers, activationTime, nextTimerActivation, timesChanged>>

\* C27: a failure raised by a timer's handler or by an observer of onPoll,
\* an Errors.NonfatalException included, is not reported through
\* onNonfatalException: it ends run at once with that failure, the timers
\* that follow in the pass are not polled, onPoll is not triggered (or its
\* dispatch not continued), and the running flag is 0.
C27_FailureEndsRun ==
    [][/\ \A out \in {"nonfatal", "fatal"} :
             /\ (PollTimer(out) /\ now > activationTime[timers[timerIdx + 1]]) =>
                    FailureEndsRun(out, << <<"timer", timers[timerIdx + 1]>>,
                                           <<"fire", timers[timerIdx + 1]>> >>)
             /\ \A c \in HookObservers :
                    HookInvoke(c, out) => FailureEndsRun(out, << <<"obs", c>> >>)
       /\ pc = "raised" => (pc' = "raised" /\ iterLog' = iterLog)]_vars

\* a timer's handler has raised an Errors.NonfatalException in a pass with
\* a timer still to poll: run has ended
C27_Witness ==
    /\ pc = "raised"
    /\ exc = "NonfatalException"
    /\ running = Some(0)
    /\ Positions({"fire"}) # {}
    /\ timerIdx < Len(timers)
    /\ Positions({"onPoll", "nfhook_nonfatal", "print"}) = {}

(***************************************************************************)
(* Properties of Event.trace and of a default action                       *)
(***************************************************************************)
\* the closures made by trace among the keys of cl, and cl without them:
\* the register as it would be had trace never been called
Traces(cl) == {c \in Support(cl) : IsTrace(traceFmt, c)}
Untraced(cl) == [c \in Callbacks |-> IF IsTrace(traceFmt, c) THEN 0 ELSE cl[c]]
CallsOf(cs, S) == {i \in 1..Len(cs) : cs[i].cb \in S}

\* trace(fmt) registers exactly one more observer
TraceRegistersOne ==
    lastOp.op = "trace" =>
        /\ prevClients[lastOp.cb] = 0
        /\ clients = Observe(prevClients, lastOp.cb)

\* a trace observer returns a falsy value whenever it is called, and a
\* trigger that has returned without a truthy result has called each one
\* once and printed, for each, the line its format gives with key i bound to
\* the i-th argument
TraceEmitsLine ==
    /\ \A i \in CallsOf(calls, Traces(startClients)) : calls[i].ret \in Falsy
    /\ (evpc = "done" /\ NoAbort(calls)) =>
          /\ \A c \in Traces(startClients) : Count(calls, c) = 1
          /\ Len(output) = Cardinality(Traces(startClients))
          /\ \A i \in 1..Len(output) :
                \A k \in DOMAIN output[i].vals : output[i].vals[k] = <<evArgs, k>>

\* the callbacks other than trace observers are called as without the trace:
\* once each when none of them returned a truthy value or raised
TraceKeepsCallbacks ==
    (/\ evpc \in {"done", "raised"}
     /\ Support(startClients) # {}
     /\ \A i \in CallsOf(calls, Support(Untraced(startClients))) :
           calls[i].ret \in Falsy) =>
        \A c \in Support(Untraced(startClients)) : Count(calls, c) = 1

\* the unhandled callback is called as without the trace: once, when no
\* callback other than trace observers is registered and one is set
TraceKeepsFallback ==
    (/\ evpc = "done"
     /\ Support(Untraced(startClients)) = {}
     /\ startUnhandled # "None") =>
        Count(calls, startUnhandled) = 1

\* the trigger returns what it returns without the trace: the truthy value
\* of a callback that is not a trace observer, or None
TraceKeepsResult ==
    evpc = "done" =>
        \/ result = "None" /\ \A i \in 1..Len(calls) : calls[i].ret \notin TruthyVals
        \/ /\ result \in TruthyVals
           /\ LastCall.ret = result
           /\ ~IsTrace(traceFmt, LastCall.cb)

\* C24: trace(fmt) registers exactly one more observer; that observer, on
\* every trigger, prints one line made from fmt and the positional arguments
\* under the keys "1".."n", and returns a falsy value; and the trace changes
\* neither which other callbacks a trigger calls, nor whether the unhandled
\* callback is called, nor what the trigger returns.
C24_TraceTransparent ==
    /\ TraceRegistersOne
    /\ TraceEmitsLine
    /\ TraceKeepsCallbacks
    /\ TraceKeepsFallback
    /\ TraceKeepsResult

\* the method that attach wrapped: the default action of the Event
DefaultAction == GetAttr("onNonfatalException")

\* the calls in which an observer other than the default action returned a
\* truthy value, in a trigger started with the default action registered
TruthyObserverCalls ==
    {i \in 1..Len(calls) :
        /\ startClients[DefaultAction] > 0
        /\ calls[i].cb # DefaultAction
        /\ calls[i].ret \in TruthyVals}

\* C25, in its strict form: in an Event built around a method (the default
\* action), whenever an observer added later returns a truthy value during a
\* trigger, the default action is not called at all in that trigger.
C25_DefaultSkipped ==
    TruthyObserverCalls # {} => Count(calls, DefaultAction) = 0

\* C25: in an Event built around a method (the default action), whenever an
\* observer added later returns a truthy value during a trigger, the default
\* action is not called after that observer in that trigger; the order of
\* the calls being undefined, the default action may have been called before
\* it, and it is called at most once.
C25_DefaultNotAfter ==
    /\ \A i \in TruthyObserverCalls :
          \A j \in CallsOf(calls, {DefaultAction}) : j < i
    /\ TruthyObserverCalls # {} =>
          /\ evpc = "done"
          /\ Count(calls, DefaultAction) <= 1

\* an observer added later was called first and returned a truthy value: the
\* trigger has returned without a call of the default action
C25_Witness ==
    /\ evpc = "done"
    /\ TruthyObserverCalls = {1}
    /\ Len(calls) = 1
    /\ Count(calls, DefaultAction) = 0
    /\ result \in TruthyVals

====
